---- MODULE Spec2Model ----
(***************************************************************************)
(* Model of ac_nesrom_gen/__main__.py: the patch-tag encoder (create_pat,  *)
(* create_tag_buffer) and the save-image assembler (main).                 *)
(*                                                                         *)
(* Representation.  A Python 2 str or bytearray is a sequence of byte      *)
(* values 0..255 (characters are their ASCII codes).  An optional value    *)
(* (None or x) is the sequence <<>> or <<x>>.  A Python int that can reach *)
(* 2^31 (a 32-bit address) is a record [hi, lo] standing for               *)
(* hi * 65536 + lo with lo in 0..65535; every other int is an integer.     *)
(* An operation that can raise returns [err, val]: err = "" on success,    *)
(* otherwise the exception.                                                *)
(***************************************************************************)
EXTENDS Integers, Sequences, FiniteSets, TLC

\* Memory card block size
BLOCK_SZ == 8192

\* 0x80003970
CUYLER_LOADER_ADDR == [hi |-> \h8000, lo |-> \h3970]

CUYLER_MULTI_LOADER ==
    <<
       148, 33, 255, 208, 124, 8, 2, 166, 144, 1, 0, 52, 144, 97, 0, 28,
       144, 129, 0, 24, 144, 161, 0, 20, 144, 193, 0, 16, 144, 225, 0, 12,
       60, 96, 128, 31, 56, 99, 108, 100, 128, 99, 0, 0, 40, 3, 0, 0,
       65, 130, 0, 168, 128, 227, 0, 0, 56, 99, 0, 4, 144, 97, 0, 32,
       65, 130, 0, 152, 128, 97, 0, 32, 128, 131, 0, 0, 40, 4, 0, 0,
       65, 130, 0, 136, 144, 129, 0, 40, 128, 195, 0, 8, 144, 193, 0, 36,
       128, 195, 0, 4, 144, 193, 0, 44, 56, 163, 0, 12, 44, 6, 0, 0,
       64, 129, 0, 28, 136, 101, 0, 0, 152, 100, 0, 0, 56, 132, 0, 1,
       56, 165, 0, 1, 56, 198, 255, 255, 75, 255, 255, 228, 144, 161, 0, 32,
       128, 129, 0, 44, 128, 97, 0, 40, 84, 128, 6, 255, 65, 130, 0, 8,
       56, 132, 0, 32, 56, 132, 0, 31, 84, 132, 217, 126, 124, 137, 3, 166,
       124, 0, 31, 172, 124, 0, 27, 172, 56, 99, 0, 32, 66, 0, 255, 244,
       124, 0, 4, 172, 76, 0, 1, 44, 56, 231, 255, 255, 40, 7, 0, 0,
       65, 130, 0, 8, 75, 255, 255, 112, 128, 129, 0, 36, 40, 4, 0, 0,
       65, 130, 0, 16, 128, 129, 0, 40, 124, 137, 3, 166, 78, 128, 4, 33,
       128, 97, 0, 28, 60, 160, 128, 98, 96, 165, 212, 204, 60, 192, 128, 109,
       96, 198, 75, 156, 144, 166, 0, 0, 124, 169, 3, 166, 78, 128, 4, 33,
       128, 1, 0, 52, 124, 8, 3, 166, 128, 129, 0, 24, 128, 161, 0, 20,
       128, 193, 0, 16, 128, 225, 0, 12, 56, 33, 0, 48, 78, 128, 0, 32
    >>

\* ASCII text used by the program
STR_PAT == <<80, 65, 84>>
STR_ZZZ == <<90, 90, 90>>
STR_END == <<69, 78, 68>>
STR_Yaz0 == <<89, 97, 122, 48>>
STR_ZZ == <<90, 90>>
STR_ROM == <<32, 93, 32, 82, 79, 77, 32>>
STR_Filename == <<68, 111, 98, 117, 116, 115, 117, 110, 111, 109, 111, 114,
                  105, 80, 95, 70, 95>>

---------------------------------------------------------------------------
(* Python built-ins used by the program *)

Min(a, b) == IF a < b THEN a ELSE b

Max(a, b) == IF a > b THEN a ELSE b

\* s[lo:hi] for 0 <= lo, 0 <= hi (0-based, hi exclusive, clamped to len(s))
Slice(s, lo, hi) == SubSeq(s, Min(lo, Len(s)) + 1, Min(hi, Len(s)))

\* bytearray slice assignment b[lo:hi] = v: the slice, clamped to len(b), is
\* replaced by all of v, so the bytearray grows or shrinks when the lengths differ
SliceAssign(b, lo, hi, v) ==
    LET l == Min(lo, Len(b))
        h == Max(l, Min(hi, Len(b)))
    IN  SubSeq(b, 1, l) \o v \o SubSeq(b, h + 1, Len(b))

\* bytearray item assignment b[i] = v
IndexAssign(b, i, v) ==
    IF ~(i >= 0 /\ i < Len(b)) THEN [err |-> "IndexError", val |-> b]
    ELSE IF ~(v >= 0 /\ v < 256) THEN [err |-> "ValueError", val |-> b]
    ELSE [err |-> "", val |-> [b EXCEPT ![i + 1] = v]]

\* bytearray(n): n zero bytes
Zeros(n) == [i \in 1..n |-> 0]

\* s.ljust(width): pads with spaces, never truncates
Ljust(s, width) ==
    IF Len(s) >= width THEN s ELSE s \o [i \in 1..(width - Len(s)) |-> 32]

\* s.upper()
Upper(s) == [i \in 1..Len(s) |-> IF s[i] >= 97 /\ s[i] <= 122 THEN s[i] - 32 ELSE s[i]]

\* ''.join(parts)
RECURSIVE Join(_)
Join(parts) == IF parts = <<>> THEN <<>> ELSE Head(parts) \o Join(Tail(parts))

HexDigit(c) ==
    IF c >= 48 /\ c <= 57 THEN c - 48
    ELSE IF c >= 65 /\ c <= 70 THEN c - 55
    ELSE IF c >= 97 /\ c <= 102 THEN c - 87
    ELSE -1

RECURSIVE HexAcc(_, _, _)
HexAcc(s, i, w) ==
    IF i > Len(s) THEN w
    ELSE LET t == w.lo * 16 + HexDigit(s[i])
         IN  HexAcc(s, i + 1, [hi |-> (w.hi * 16) + (t \div 65536), lo |-> (t % 65536)])

\* int(s, 16) for s over hex digits, 'x' and other letters: an optional 0x
\* prefix, then at least one hex digit; anything else is a ValueError
int16(s) ==
    LET body == IF Len(s) >= 2 /\ s[1] = 48 /\ s[2] \in {88, 120}
                THEN SubSeq(s, 3, Len(s)) ELSE s
    IN  IF body = <<>> \/ \E i \in 1..Len(body) : HexDigit(body[i]) < 0
        THEN [err |-> "ValueError", val |-> [hi |-> 0, lo |-> 0]]
        ELSE [err |-> "", val |-> HexAcc(body, 1, [hi |-> 0, lo |-> 0])]

\* binascii.unhexlify(s)
unhexlify(s) ==
    IF Len(s) % 2 # 0 \/ \E i \in 1..Len(s) : HexDigit(s[i]) < 0
    THEN [err |-> "TypeError", val |-> <<>>]
    ELSE [err |-> "", val |-> [i \in 1..(Len(s) \div 2) |->
                                 (HexDigit(s[2 * i - 1]) * 16) + HexDigit(s[2 * i])]]

\* struct's range check of an unsigned field of the given width
CanPack(bits, value) == value >= 0 /\ value < 2 ^ bits

\* the same for a [hi, lo] value packed as '>I'
CanPackWide(w) == w.hi >= 0 /\ w.hi < 65536

\* struct.unpack('>I', s)[0]; fails unless len(s) = 4 (the ROMs drawn declare
\* sizes below 2^31)
unpack_int(s) ==
    IF Len(s) # 4 THEN [err |-> "struct.error", val |-> 0]
    ELSE [err |-> "", val |-> ((s[1] * 256 + s[2]) * 256 + s[3]) * 256 + s[4]]

\* x & 0xFFFFFFFF for x >= 0
Mask32(x) == (((x \div 65536) % 65536) * 65536) + (x % 65536)

---------------------------------------------------------------------------
(* Module-level functions *)

RECURSIVE block_count_loop(_, _, _)
block_count_loop(blocks, data_size, block_size) ==
    IF block_size * blocks < data_size
    THEN block_count_loop(blocks + 1, data_size, block_size)
    ELSE blocks

block_count(data_size, block_size) == block_count_loop(0, data_size, block_size)

block_align(data_size, block_size) == block_count(data_size, block_size) * block_size

pack_short_le(value) == <<value % 256, value \div 256>>

pack_short(value) == <<value \div 256, value % 256>>

\* pack_int of a small int
pack_int(value) ==
    <<value \div 16777216, (value \div 65536) % 256, (value \div 256) % 256,
      value % 256>>

\* pack_int of a [hi, lo] value
pack_int_wide(w) == pack_short(w.hi) \o pack_short(w.lo)

tag_header(tag, size) == tag \o <<size>>

create_pat_limit250(target_addr, payload) ==
    IF Len(payload) > 250 THEN [err |-> "payload too big", val |-> <<>>]
    ELSE LET off_high == (target_addr.hi % 65536) - \h7F80
             off_low == target_addr.lo
         IN  IF ~(CanPack(8, off_high) /\ CanPack(8, Len(payload)) /\ CanPack(16, off_low))
             THEN [err |-> "struct.error", val |-> <<>>]
             ELSE LET tag_data == <<off_high, Len(payload)>> \o pack_short(off_low) \o payload
                  IN  [err |-> "", val |-> tag_header(STR_PAT, Len(tag_data)) \o tag_data]

create_pat(target_addr, payload) ==
    IF Len(payload) > 251 THEN [err |-> "payload too big", val |-> <<>>]
    ELSE LET off_high == (target_addr.hi % 65536) - \h7F80
             off_low == target_addr.lo
         IN  IF ~(CanPack(8, off_high) /\ CanPack(8, Len(payload)) /\ CanPack(16, off_low))
             THEN [err |-> "struct.error", val |-> <<>>]
             ELSE LET tag_data == <<off_high, Len(payload)>> \o pack_short(off_low) \o payload
                  IN  IF ~CanPack(8, Len(tag_data))
                      THEN [err |-> "struct.error", val |-> <<>>]
                      ELSE [err |-> "", val |-> tag_header(STR_PAT, Len(tag_data)) \o tag_data]

create_tag_buffer_no_end(tags) ==
    tag_header(STR_ZZZ, 0) \o Join(tags)

create_tag_buffer(tags) ==
    tag_header(STR_ZZZ, 0) \o Join(tags) \o tag_header(STR_END, 0)

---------------------------------------------------------------------------
(* State of one run of main() *)

VARIABLES
    blank_gci,      \* the container read from blank.gci: header fields and save data
    romfile,        \* bytes of the ROM, after the optional loader header is prepended
    banner_file,    \* optional banner bytes
    new_data_tmp,   \* the image bytearray
    tag_info,       \* the tag buffer
    tags,           \* list of encoded tag records
    args,           \* parsed command line; a file argument stands for the file's bytes
    outfile,        \* the output file: absent, open (created, empty), written
    patch_payload,  \* loop locals of the user-patch loop
    patch_target,
    patch_i,        \* 1-based position of the loop in args.patch
    auto_target,
    comments_addr,
    nes_rom_len,
    banner_len,
    tag_info_len,
    total_len,
    new_count,
    data_offset,
    checksum,
    checkbyte,
    err,            \* the uncaught exception that ended the run, "" if none
    pc              \* position in main()

vars == <<blank_gci, romfile, banner_file, new_data_tmp, tag_info, tags, args, outfile,
          patch_payload, patch_target, patch_i, auto_target, comments_addr, nes_rom_len,
          banner_len, tag_info_len, total_len, new_count, data_offset, checksum,
          checkbyte, err, pc>>

---------------------------------------------------------------------------
(* Bounded inputs *)

\* content seeds 1..MaxFill
MaxFill == 2

\* at most MaxPatches consecutive patches of the pool on one command line
MaxPatches == 2

Fill(n, seed) == [i \in 1..n |-> ((i * seed) + seed) % 256]

\* a lower-case game name of n letters
Name(n) == [i \in 1..n |-> 97 + ((i - 1) % 26)]

HexChar(d) == IF d < 10 THEN 48 + d ELSE 87 + d

\* the hex text of a byte string, as given to --patch
HexText(b) ==
    [i \in 1..(2 * Len(b)) |->
        HexChar(IF i % 2 = 1 THEN b[(i + 1) \div 2] \div 16 ELSE b[i \div 2] % 16)]

Yaz0Rom(size, n) == STR_Yaz0 \o pack_int(size) \o Fill(n, 1)

Base ==
    [game_name |-> <<77, 97, 114, 105, 111>>, rom_file |-> Fill(16, 1), loader |-> FALSE,
     autoheader |-> <<>>, banner |-> <<>>, patch |-> <<>>, CommentsAddr |-> 4, blank |-> 1]

\* ROM lengths around the point where header + tag buffer + ROM fill one block
RomLens == {0, 1, 6500, 6543, 6544, 6552, 6553}

Banners == {<<>>, << <<>> >>, <<Fill(5, 3)>>, <<Fill(32, 3)>>}

LayoutInputs ==
    {[Base EXCEPT !.rom_file = Fill(n, s), !.banner = b, !.loader = l] :
        n \in RomLens, s \in 1..MaxFill, b \in Banners, l \in BOOLEAN}

NameLens == {0, 5, 16, 17, 25, 26}

NameInputs ==
    {[Base EXCEPT !.game_name = Name(n), !.CommentsAddr = c, !.blank = s] :
        n \in NameLens, c \in {4, 64}, s \in 0..MaxFill}

\* "80100000", "0x807FFFFF", "" (no address), "8zz" (not hex), "100000000" (33 bits)
AutoHeaders ==
    {<<>>, << <<>> >>, << <<56, 48, 49, 48, 48, 48, 48, 48>> >>,
     << <<48, 120, 56, 48, 55, 70, 70, 70, 70, 70>> >>, << <<56, 122, 122>> >>,
     << <<49, 48, 48, 48, 48, 48, 48, 48, 48>> >>}

HeaderRoms ==
    {<<>>, Fill(1024, 1), Fill(6200, 1), STR_Yaz0, Yaz0Rom(0, 8), Yaz0Rom(1024, 8),
     Yaz0Rom(1048576, 8)}

HeaderInputs ==
    {[Base EXCEPT !.autoheader = a, !.rom_file = r, !.loader = l] :
        a \in AutoHeaders, r \in HeaderRoms, l \in BOOLEAN}

\* one-byte ROMs of every value: every residue of the byte sum occurs
ChecksumInputs == {[Base EXCEPT !.rom_file = <<v>>] : v \in 0..255}

\* <<address text, payload text>>: 80001000, 0x806D4B9C, 807FFFFF, 80000000
GoodPatches ==
    << <<<<56, 48, 48, 48, 49, 48, 48, 48>>, HexText(<<170, 170, 170, 170>>)>>,
       <<<<48, 120, 56, 48, 54, 68, 52, 66, 57, 67>>, HexText(Fill(251, 1))>>,
       <<<<56, 48, 55, 70, 70, 70, 70, 70>>, <<>>>>,
       <<<<56, 48, 48, 48, 48, 48, 48, 48>>, HexText(<<1, 2>>)>> >>

\* too long, below the window (7FFF0000), odd-length bytes, address not hex
BadPatches ==
    { <<<<56, 48, 48, 48, 49, 48, 48, 48>>, HexText(Fill(252, 1))>>,
      <<<<55, 70, 70, 70, 48, 48, 48, 48>>, HexText(<<0>>)>>,
      <<<<56, 48, 48, 48, 49, 48, 48, 48>>, <<97, 98, 99>>>>,
      <<<<56, 103>>, HexText(<<0>>)>> }

Reverse(s) == [i \in 1..Len(s) |-> s[Len(s) + 1 - i]]

\* the runs of at most MaxPatches consecutive elements of s
Windows(s) ==
    {SubSeq(s, i, Min(i + k - 1, Len(s))) : i \in 1..Len(s), k \in 0..MaxPatches}

PatchLists ==
    Windows(GoodPatches) \cup Windows(Reverse(GoodPatches))
        \cup {<<GoodPatches[1], b>> : b \in BadPatches}

PatchInputs ==
    {[Base EXCEPT !.patch = p, !.loader = l] : p \in PatchLists, l \in BOOLEAN}

Inputs == LayoutInputs \cup NameInputs \cup HeaderInputs \cup ChecksumInputs \cup PatchInputs

\* the first data block of blank.gci
BlankBlock(seed) == [i \in 1..BLOCK_SZ |-> (i * seed) % 256]

---------------------------------------------------------------------------
(* main() *)

\* argparse and gci.read_gci('blank.gci')
Init ==
    \E in \in Inputs :
        /\ args = [game_name |-> in.game_name, rom_file |-> in.rom_file,
                   loader |-> in.loader, autoheader |-> in.autoheader,
                   banner |-> in.banner, patch |-> in.patch]
        /\ blank_gci = [m_gci_header |-> [CommentsAddr |-> in.CommentsAddr,
                                          Filename |-> <<>>, BlockCount |-> 1],
                        m_save_data |-> <<BlankBlock(in.blank)>>]
        /\ romfile = <<>>
        /\ banner_file = <<>>
        /\ new_data_tmp = <<>>
        /\ tag_info = <<>>
        /\ tags = <<>>
        /\ outfile = [state |-> "absent", data |-> <<>>]
        /\ patch_payload = <<>>
        /\ patch_target = [hi |-> 0, lo |-> 0]
        /\ patch_i = 1
        /\ auto_target = [hi |-> 0, lo |-> 0]
        /\ comments_addr = 0
        /\ nes_rom_len = 0
        /\ banner_len = 0
        /\ tag_info_len = 0
        /\ total_len = 0
        /\ new_count = 0
        /\ data_offset = 0
        /\ checksum = 0
        /\ checkbyte = 0
        /\ err = ""
        /\ pc = "start"

\* the run ends with an uncaught exception
Raise(e) == pc' = "failed" /\ err' = e

Goto(l) == pc' = l /\ err' = err

ReadInputs ==
    /\ pc = "start"
    /\ comments_addr' = blank_gci.m_gci_header.CommentsAddr
    /\ romfile' = args.rom_file
    /\ Goto("autoheader")
    /\ UNCHANGED <<blank_gci, banner_file, new_data_tmp, tag_info, tags, args, outfile,
                   patch_payload, patch_target, patch_i, auto_target, nes_rom_len,
                   banner_len, tag_info_len, total_len, new_count, data_offset, checksum,
                   checkbyte>>

\* struct.pack('>IIII', 1, auto_target, len(romfile), 1) + romfile
AutoHeaderBlob_size_of_blob(target, rom) ==
    pack_int(1) \o pack_int_wide(target) \o pack_int(Len(rom) + 16) \o pack_int(1) \o rom

AutoHeaderBlob(target, rom) ==
    pack_int(1) \o pack_int_wide(target) \o pack_int(Len(rom)) \o pack_int(1) \o rom

AutoHeader ==
    /\ pc = "autoheader"
    /\ IF args.autoheader # <<>> /\ args.autoheader[1] # <<>>
       THEN LET parsed == int16(args.autoheader[1])
            IN  IF parsed.err # ""
                THEN /\ args' = [args EXCEPT !.loader = TRUE]
                     /\ Raise(parsed.err)
                     /\ UNCHANGED <<auto_target, romfile>>
                ELSE /\ args' = [args EXCEPT !.loader = TRUE]
                     /\ auto_target' = parsed.val
                     /\ IF CanPackWide(parsed.val)
                        THEN /\ romfile' = AutoHeaderBlob(parsed.val, romfile)
                             /\ Goto("romlen")
                        ELSE /\ Raise("struct.error")
                             /\ UNCHANGED romfile
       ELSE /\ Goto("romlen")
            /\ UNCHANGED <<args, auto_target, romfile>>
    /\ UNCHANGED <<blank_gci, banner_file, new_data_tmp, tag_info, tags, outfile,
                   patch_payload, patch_target, patch_i, comments_addr, nes_rom_len,
                   banner_len, tag_info_len, total_len, new_count, data_offset, checksum,
                   checkbyte>>

RomLen ==
    /\ pc = "romlen"
    /\ IF Slice(romfile, 0, 4) = STR_Yaz0 /\ ~args.loader
       THEN LET size == unpack_int(Slice(romfile, 4, 8))
            IN  IF size.err # ""
                THEN Raise(size.err) /\ UNCHANGED nes_rom_len
                ELSE nes_rom_len' = size.val /\ Goto("banner")
       ELSE nes_rom_len' = Len(romfile) /\ Goto("banner")
    /\ UNCHANGED <<blank_gci, romfile, banner_file, new_data_tmp, tag_info, tags, args,
                   outfile, patch_payload, patch_target, patch_i, auto_target,
                   comments_addr, banner_len, tag_info_len, total_len, new_count,
                   data_offset, checksum, checkbyte>>

LoadBanner ==
    /\ pc = "banner"
    /\ IF args.banner # <<>>
       THEN banner_file' = args.banner /\ banner_len' = Len(args.banner[1])
       ELSE banner_file' = <<>> /\ banner_len' = 0
    /\ tags' = <<>>
    /\ Goto("loader")
    /\ UNCHANGED <<blank_gci, romfile, new_data_tmp, tag_info, args, outfile,
                   patch_payload, patch_target, patch_i, auto_target, comments_addr,
                   nes_rom_len, tag_info_len, total_len, new_count, data_offset, checksum,
                   checkbyte>>

\* create_pat results for the loader: two halves of the loader code and the jump
LoaderPats ==
    << create_pat(CUYLER_LOADER_ADDR, Slice(CUYLER_MULTI_LOADER, 0, 250)),
       create_pat([CUYLER_LOADER_ADDR EXCEPT !.lo = @ + 250],
                  Slice(CUYLER_MULTI_LOADER, 250, Len(CUYLER_MULTI_LOADER))),
       create_pat([hi |-> \h806D, lo |-> \h4B9C], pack_int_wide(CUYLER_LOADER_ADDR)) >>

\* the exception of the first call that raised, "" if none did
RECURSIVE FirstErr(_)
FirstErr(results) ==
    IF results = <<>> THEN ""
    ELSE IF Head(results).err # "" THEN Head(results).err
    ELSE FirstErr(Tail(results))

InsertLoader ==
    /\ pc = "loader"
    /\ IF args.loader
       THEN IF FirstErr(LoaderPats) # ""
            THEN Raise(FirstErr(LoaderPats)) /\ UNCHANGED tags
            ELSE /\ tags' = tags \o <<LoaderPats[1].val, LoaderPats[2].val, LoaderPats[3].val>>
                 /\ Goto("patches")
       ELSE Goto("patches") /\ UNCHANGED tags
    /\ UNCHANGED <<blank_gci, romfile, banner_file, new_data_tmp, tag_info, args, outfile,
                   patch_payload, patch_target, patch_i, auto_target, comments_addr,
                   nes_rom_len, banner_len, tag_info_len, total_len, new_count,
                   data_offset, checksum, checkbyte>>

\* one iteration of the user-patch loop, up to the create_pat call
ParsePatch ==
    /\ pc = "patches"
    /\ patch_i <= Len(args.patch)
    /\ LET patch == args.patch[patch_i]
           target == int16(patch[1])
           payload == unhexlify(patch[2])
       IN  IF target.err # ""
           THEN Raise(target.err) /\ UNCHANGED <<patch_target, patch_payload>>
           ELSE IF payload.err # ""
           THEN Raise(payload.err) /\ patch_target' = target.val /\ UNCHANGED patch_payload
           ELSE /\ patch_target' = target.val
                /\ patch_payload' = payload.val
                /\ Goto("create_pat")
    /\ UNCHANGED <<blank_gci, romfile, banner_file, new_data_tmp, tag_info, tags, args,
                   outfile, patch_i, auto_target, comments_addr, nes_rom_len, banner_len,
                   tag_info_len, total_len, new_count, data_offset, checksum, checkbyte>>

\* tags.append(create_pat(patch_target, patch_payload))
AppendPatch ==
    /\ pc = "create_pat"
    /\ LET pat == create_pat(patch_target, patch_payload)
       IN  IF pat.err # ""
           THEN Raise(pat.err) /\ UNCHANGED <<tags, patch_i>>
           ELSE /\ tags' = Append(tags, pat.val)
                /\ patch_i' = patch_i + 1
                /\ Goto("patches")
    /\ UNCHANGED <<blank_gci, romfile, banner_file, new_data_tmp, tag_info, args, outfile,
                   patch_payload, patch_target, auto_target, comments_addr, nes_rom_len,
                   banner_len, tag_info_len, total_len, new_count, data_offset, checksum,
                   checkbyte>>

BuildTagBuffer ==
    /\ pc = "patches"
    /\ patch_i > Len(args.patch)
    /\ tag_info' = create_tag_buffer(tags)
    /\ tag_info_len' = Len(create_tag_buffer(tags))
    /\ Goto("sizing")
    /\ UNCHANGED <<blank_gci, romfile, banner_file, new_data_tmp, tags, args, outfile,
                   patch_payload, patch_target, patch_i, auto_target, comments_addr,
                   nes_rom_len, banner_len, total_len, new_count, data_offset, checksum,
                   checkbyte>>

Sizing ==
    /\ pc = "sizing"
    /\ LET total == \h660 + Len(romfile) + banner_len + tag_info_len
           count == Max(1, block_count(total, BLOCK_SZ))
       IN  /\ total_len' = total
           /\ new_count' = count
           /\ blank_gci' = [blank_gci EXCEPT
                  !.m_gci_header.Filename = STR_Filename \o Upper(Slice(args.game_name, 0, 4)),
                  !.m_gci_header.BlockCount = count]
    /\ Goto("template")
    /\ UNCHANGED <<romfile, banner_file, new_data_tmp, tag_info, tags, args, outfile,
                   patch_payload, patch_target, patch_i, auto_target, comments_addr,
                   nes_rom_len, banner_len, tag_info_len, data_offset, checksum,
                   checkbyte>>

\* Copy beginning of NES SAVE file into the zero-filled bytearray
TemplateCopy ==
    /\ pc = "template"
    /\ LET old_data == blank_gci.m_save_data
       IN  new_data_tmp' = SliceAssign(Zeros(BLOCK_SZ * new_count), 0, \h640,
                                       Slice(old_data[1], 0, \h640))
    /\ Goto("description")
    /\ UNCHANGED <<blank_gci, romfile, banner_file, tag_info, tags, args, outfile,
                   patch_payload, patch_target, patch_i, auto_target, comments_addr,
                   nes_rom_len, banner_len, tag_info_len, total_len, new_count,
                   data_offset, checksum, checkbyte>>

\* Set description to name of the game
Description ==
    /\ pc = "description"
    /\ new_data_tmp' = SliceAssign(new_data_tmp, comments_addr + 32, comments_addr + 64,
                                   Ljust(args.game_name \o STR_ROM, 32))
    /\ Goto("title")
    /\ UNCHANGED <<blank_gci, romfile, banner_file, tag_info, tags, args, outfile,
                   patch_payload, patch_target, patch_i, auto_target, comments_addr,
                   nes_rom_len, banner_len, tag_info_len, total_len, new_count,
                   data_offset, checksum, checkbyte>>

\* Set title of game as shown in game menu
Title ==
    /\ pc = "title"
    /\ new_data_tmp' = SliceAssign(new_data_tmp, \h640, \h650,
                                   STR_ZZ \o Ljust(args.game_name, 16))
    /\ Goto("fields")
    /\ UNCHANGED <<blank_gci, romfile, banner_file, tag_info, tags, args, outfile,
                   patch_payload, patch_target, patch_i, auto_target, comments_addr,
                   nes_rom_len, banner_len, tag_info_len, total_len, new_count,
                   data_offset, checksum, checkbyte>>

\* ROM size / 16, tag info size, banner size, flag bytes, icon format
HeaderFields ==
    /\ pc = "fields"
    /\ IF ~(CanPack(16, nes_rom_len \div 16) /\ CanPack(16, tag_info_len)
            /\ CanPack(16, banner_len))
       THEN Raise("struct.error") /\ UNCHANGED new_data_tmp
       ELSE LET b1 == SliceAssign(new_data_tmp, \h640 + \h12, \h640 + \h14,
                                  pack_short(nes_rom_len \div 16))
                b2 == SliceAssign(b1, \h640 + \h14, \h640 + \h16, pack_short(tag_info_len))
                b3 == SliceAssign(b2, \h640 + \h1A, \h640 + \h1C, pack_short(banner_len))
                b4 == IndexAssign(b3, \h640 + \h1C, 202)
                b5 == IndexAssign(b4.val, \h640 + \h1D, 0)
                b6 == IndexAssign(b5.val, \h640 + \h16, 0)
                b7 == IndexAssign(b6.val, \h640 + \h17, 0)
            IN  IF FirstErr(<<b4, b5, b6, b7>>) # ""
                THEN Raise(FirstErr(<<b4, b5, b6, b7>>)) /\ UNCHANGED new_data_tmp
                ELSE new_data_tmp' = b7.val /\ Goto("copy_tags")
    /\ UNCHANGED <<blank_gci, romfile, banner_file, tag_info, tags, args, outfile,
                   patch_payload, patch_target, patch_i, auto_target, comments_addr,
                   nes_rom_len, banner_len, tag_info_len, total_len, new_count,
                   data_offset, checksum, checkbyte>>

\* Copy in tag info
CopyTagInfo ==
    /\ pc = "copy_tags"
    /\ IF tag_info_len > 0
       THEN /\ new_data_tmp' = SliceAssign(new_data_tmp, \h660, \h660 + tag_info_len, tag_info)
            /\ data_offset' = \h660 + block_align(tag_info_len, 16)
       ELSE /\ data_offset' = \h660
            /\ UNCHANGED new_data_tmp
    /\ Goto("copy_banner")
    /\ UNCHANGED <<blank_gci, romfile, banner_file, tag_info, tags, args, outfile,
                   patch_payload, patch_target, patch_i, auto_target, comments_addr,
                   nes_rom_len, banner_len, tag_info_len, total_len, new_count, checksum,
                   checkbyte>>

\* Copy in banner
CopyBanner ==
    /\ pc = "copy_banner"
    /\ IF banner_len > 0
       THEN /\ new_data_tmp' = SliceAssign(new_data_tmp, data_offset,
                                           data_offset + banner_len, banner_file[1])
            /\ data_offset' = data_offset + block_align(banner_len, 16)
       ELSE UNCHANGED <<new_data_tmp, data_offset>>
    /\ Goto("copy_rom")
    /\ UNCHANGED <<blank_gci, romfile, banner_file, tag_info, tags, args, outfile,
                   patch_payload, patch_target, patch_i, auto_target, comments_addr,
                   nes_rom_len, banner_len, tag_info_len, total_len, new_count, checksum,
                   checkbyte>>

\* Copy in the NES ROM
CopyRom ==
    /\ pc = "copy_rom"
    /\ IF nes_rom_len > 0
       THEN new_data_tmp' = SliceAssign(new_data_tmp, data_offset,
                                        data_offset + Len(romfile), romfile)
       ELSE UNCHANGED new_data_tmp
    /\ Goto("checksum")
    /\ UNCHANGED <<blank_gci, romfile, banner_file, tag_info, tags, args, outfile,
                   patch_payload, patch_target, patch_i, auto_target, comments_addr,
                   nes_rom_len, banner_len, tag_info_len, total_len, new_count,
                   data_offset, checksum, checkbyte>>

\* the loop "checksum += b & 0xFF; checksum = checksum & 0xFFFFFFFF" over
\* s[lo..hi]; addition modulo 2^32 is associative, so the range is split in halves
RECURSIVE SumBytes(_, _, _)
SumBytes(s, lo, hi) ==
    IF lo > hi THEN 0
    ELSE IF lo = hi THEN s[lo] % 256
    ELSE LET mid == (lo + hi) \div 2
         IN  Mask32(SumBytes(s, lo, mid) + SumBytes(s, mid + 1, hi))

Checksum ==
    /\ pc = "checksum"
    /\ checksum' = SumBytes(new_data_tmp, 1, Len(new_data_tmp))
    /\ Goto("checkbyte")
    /\ UNCHANGED <<blank_gci, romfile, banner_file, new_data_tmp, tag_info, tags, args,
                   outfile, patch_payload, patch_target, patch_i, auto_target,
                   comments_addr, nes_rom_len, banner_len, tag_info_len, total_len,
                   new_count, data_offset, checkbyte>>

\* Calculate checksum: the check byte, stored at index BLOCK_SZ * new_count - 1
CheckByte ==
    /\ pc = "checkbyte"
    /\ checkbyte' = 256 - (checksum % 256)
    /\ LET stored == IndexAssign(new_data_tmp, (BLOCK_SZ * new_count) - 1,
                                 256 - (checksum % 256))
       IN  IF stored.err # ""
           THEN Raise(stored.err) /\ UNCHANGED new_data_tmp
           ELSE new_data_tmp' = stored.val /\ Goto("save")
    /\ UNCHANGED <<blank_gci, romfile, banner_file, tag_info, tags, args, outfile,
                   patch_payload, patch_target, patch_i, auto_target, comments_addr,
                   nes_rom_len, banner_len, tag_info_len, total_len, new_count,
                   data_offset, checksum>>

\* blank_gci['m_save_data'] = str(new_data_tmp)
Save ==
    /\ pc = "save"
    /\ blank_gci' = [blank_gci EXCEPT !.m_save_data = new_data_tmp]
    /\ Goto("open")
    /\ UNCHANGED <<romfile, banner_file, new_data_tmp, tag_info, tags, args, outfile,
                   patch_payload, patch_target, patch_i, auto_target, comments_addr,
                   nes_rom_len, banner_len, tag_info_len, total_len, new_count,
                   data_offset, checksum, checkbyte>>

\* open(args.out_file, 'wb') creates or truncates the file
OpenOut ==
    /\ pc = "open"
    /\ outfile' = [state |-> "open", data |-> <<>>]
    /\ Goto("write")
    /\ UNCHANGED <<blank_gci, romfile, banner_file, new_data_tmp, tag_info, tags, args,
                   patch_payload, patch_target, patch_i, auto_target, comments_addr,
                   nes_rom_len, banner_len, tag_info_len, total_len, new_count,
                   data_offset, checksum, checkbyte>>

\* outfile.write(gci.write_gci(blank_gci)): the file holds the container; the
\* codec's own envelope is not part of this program
WriteOut ==
    /\ pc = "write"
    /\ outfile' = [state |-> "written", data |-> blank_gci.m_save_data]
    /\ Goto("done")
    /\ UNCHANGED <<blank_gci, romfile, banner_file, new_data_tmp, tag_info, tags, args,
                   patch_payload, patch_target, patch_i, auto_target, comments_addr,
                   nes_rom_len, banner_len, tag_info_len, total_len, new_count,
                   data_offset, checksum, checkbyte>>

Next ==
    \/ ReadInputs
    \/ AutoHeader
    \/ RomLen
    \/ LoadBanner
    \/ InsertLoader
    \/ ParsePatch
    \/ AppendPatch
    \/ BuildTagBuffer
    \/ Sizing
    \/ TemplateCopy
    \/ Description
    \/ Title
    \/ HeaderFields
    \/ CopyTagInfo
    \/ CopyBanner
    \/ CopyRom
    \/ Checksum
    \/ CheckByte
    \/ Save
    \/ OpenOut
    \/ WriteOut

Spec == Init /\ [][Next]_vars

---------------------------------------------------------------------------
(* create_pat on its own: the state before line 224 for any target and payload *)

PatTargets ==
    {[hi |-> h, lo |-> l] :
        h \in {0, \h7FFF, \h8000, \h8001, \h806D, \h807F, \h8080, \h18000},
        l \in {0, \h3970, \hFFFF}}

PatLens == {0, 1, 2, 4, 250, 251, 252, 255, 256, 300}

InitPat ==
    /\ patch_target \in PatTargets
    /\ patch_payload \in {Fill(n, s) : n \in PatLens, s \in 1..MaxFill}
    /\ args = [game_name |-> Base.game_name, rom_file |-> <<>>, loader |-> FALSE,
               autoheader |-> <<>>, banner |-> <<>>, patch |-> <<>>]
    /\ blank_gci = [m_gci_header |-> [CommentsAddr |-> Base.CommentsAddr,
                                      Filename |-> <<>>, BlockCount |-> 1],
                    m_save_data |-> <<>>]
    /\ romfile = <<>>
    /\ banner_file = <<>>
    /\ new_data_tmp = <<>>
    /\ tag_info = <<>>
    /\ tags = <<>>
    /\ outfile = [state |-> "absent", data |-> <<>>]
    /\ patch_i = 1
    /\ auto_target = [hi |-> 0, lo |-> 0]
    /\ comments_addr = 0
    /\ nes_rom_len = 0
    /\ banner_len = 0
    /\ tag_info_len = 0
    /\ total_len = 0
    /\ new_count = 0
    /\ data_offset = 0
    /\ checksum = 0
    /\ checkbyte = 0
    /\ err = ""
    /\ pc = "create_pat"

NextPat == AppendPatch

SpecPat == InitPat /\ [][NextPat]_vars

---------------------------------------------------------------------------
(* Properties *)

\* n rounded up to a multiple of 16
Align16(n) == ((n + 15) \div 16) * 16

\* the byte sum of s[lo..hi] modulo 256
RECURSIVE SumMod256(_, _, _)
SumMod256(s, lo, hi) ==
    IF lo > hi THEN 0
    ELSE IF lo = hi THEN s[lo] % 256
    ELSE LET mid == (lo + hi) \div 2
         IN  (SumMod256(s, lo, mid) + SumMod256(s, mid + 1, hi)) % 256

\* the check byte has been written
Finalized == pc \in {"save", "open", "write", "done"}

\* the run died storing the check byte: past sizing, only that store raises ValueError
FinalizeFailed == pc = "failed" /\ err = "ValueError" /\ new_count > 0

\* the bytearray exists
Allocated ==
    pc \in {"description", "title", "fields", "copy_tags", "copy_banner", "copy_rom",
            "checksum", "checkbyte", "save", "open", "write", "done"}

\* the header fields have been written
FieldsWritten ==
    pc \in {"copy_tags", "copy_banner", "copy_rom", "checksum", "checkbyte", "save",
            "open", "write", "done"}

\* all regions have been placed
Placed == pc \in {"checksum", "checkbyte", "save", "open", "write", "done"}

\* C1: once the check byte has been written, the bytes of the whole image
\* buffer sum to 0 modulo 256.
C1_SumIsZero ==
    Finalized => SumMod256(new_data_tmp, 1, Len(new_data_tmp)) = 0

\* C2: the check byte computed at finalize is (256 - (sum mod 256)) mod 256, a
\* value in 0..255, so storing it never fails.
C2_CheckByteInRange ==
    /\ (Finalized \/ FinalizeFailed) =>
           /\ checkbyte = (256 - (checksum % 256)) % 256
           /\ checkbyte \in 0..255
    /\ ~FinalizeFailed

\* C3: no failure happens once the output file is open, and a written file
\* holds a complete image whose bytes sum to 0 modulo 256.
C3_AllOrNothing ==
    /\ pc = "failed" => outfile.state = "absent"
    /\ outfile.state = "written" =>
           /\ pc = "done"
           /\ SumMod256(outfile.data, 1, Len(outfile.data)) = 0

\* C4: from its allocation on the image buffer holds exactly
\* BlockCount * 0x2000 bytes, the check byte at its last index, and that is
\* the length handed to the container codec.
C4_LengthIsBlocks ==
    /\ Allocated => Len(new_data_tmp) = BLOCK_SZ * new_count
    /\ Finalized => new_data_tmp[Len(new_data_tmp)] = checkbyte
    /\ outfile.state = "written" =>
           Len(outfile.data) = blank_gci.m_gci_header.BlockCount * BLOCK_SZ

\* C5: BlockCount is the least N >= 1 with N * 0x2000 >= 0x660 +
\* align16(tag buffer) + align16(banner) + len(payload), and every placed
\* region ends at or before BlockCount * 0x2000.
C5_BlockCountIsLeast ==
    LET claimed_total == \h660 + Align16(tag_info_len) + Align16(banner_len) + Len(romfile)
        last_end == \h660 + Align16(tag_info_len) + Align16(banner_len)
                        + (IF nes_rom_len > 0 THEN Len(romfile) ELSE 0)
    IN  /\ (Allocated \/ pc = "template") =>
               /\ new_count >= 1
               /\ new_count * BLOCK_SZ >= claimed_total
               /\ new_count > 1 => (new_count - 1) * BLOCK_SZ < claimed_total
        /\ Placed => last_end <= new_count * BLOCK_SZ

\* C6: in the final image the tag buffer is at [0x660, 0x660 + T), the banner
\* (if any) starts at 0x660 + align16(T), and every non-empty payload stands
\* verbatim at 0x660 + align16(T) + align16(B); the starts are multiples of 16
\* and the regions do not overlap.
C6_RegionsInOrder ==
    LET T == Len(tag_info)
        B == IF banner_file = <<>> THEN 0 ELSE Len(banner_file[1])
        banner_start == \h660 + Align16(T)
        payload_start == banner_start + Align16(B)
    IN  Finalized =>
            /\ Slice(new_data_tmp, \h660, \h660 + T) = tag_info
            /\ banner_file # <<>> =>
                   Slice(new_data_tmp, banner_start, banner_start + B) = banner_file[1]
            /\ romfile # <<>> =>
                   Slice(new_data_tmp, payload_start, payload_start + Len(romfile)) = romfile
            /\ banner_start % 16 = 0 /\ payload_start % 16 = 0
            /\ \h660 + T <= banner_start /\ banner_start + B <= payload_start

\* the address lies in 0x80000000..0x807FFFFF
InWindow(a) == a.hi >= \h8000 /\ a.hi <= \h807F

\* create_pat has returned or raised
PatCalled == pc # "create_pat"

\* C7 as stated: create_pat fails with 'payload too big' for every length
\* outside 1..251 and succeeds for every length in 1..251 with an in-window
\* address.
C7_RejectsOutside1To251 ==
    PatCalled =>
        /\ ~(Len(patch_payload) \in 1..251) => pc = "failed" /\ err = "payload too big"
        /\ (Len(patch_payload) \in 1..251 /\ InWindow(patch_target)) =>
               pc = "patches" /\ err = "" /\ Len(tags) = 1

\* C7 as amended: create_pat fails with 'payload too big' for every length
\* above 251 and succeeds for every length in 0..251 with an in-window address.
C7_RejectsAbove251 ==
    PatCalled =>
        /\ Len(patch_payload) > 251 => pc = "failed" /\ err = "payload too big"
        /\ (Len(patch_payload) <= 251 /\ InWindow(patch_target)) =>
               pc = "patches" /\ err = "" /\ Len(tags) = 1

\* C7: a 251-byte payload with an in-window address was encoded
C7_Witness ==
    pc = "patches" /\ Len(patch_payload) = 251 /\ InWindow(patch_target) /\ Len(tags) = 1

\* C8: for an in-window address a and 1 <= len(p) <= 251 the record is 'PAT',
\* the size byte 4 + len(p) (the bytes after the 4-byte header), off_high,
\* len(p), off_low big-endian, p; decoding ((off_high + 0x7F80) << 16) | off_low
\* and the len(p) bytes after the 8th byte gives (a, p) back.
C8_PatRoundTrip ==
    (PatCalled /\ InWindow(patch_target) /\ Len(patch_payload) \in 1..251) =>
        /\ pc = "patches"
        /\ Len(tags) = 1
        /\ LET rec == tags[1]
           IN  /\ Len(rec) = 8 + Len(patch_payload)
               /\ SubSeq(rec, 1, 3) = <<80, 65, 84>>
               /\ rec[4] = 4 + Len(patch_payload)
               /\ rec[4] = Len(rec) - 4
               /\ rec[5] \in 0..255
               /\ rec[6] = Len(patch_payload)
               /\ [hi |-> rec[5] + \h7F80, lo |-> rec[7] * 256 + rec[8]] = patch_target
               /\ SubSeq(rec, 9, 8 + rec[6]) = patch_payload

\* C8: the record for 0x807FFFFF with a 251-byte payload was built
C8_Witness ==
    /\ pc = "patches"
    /\ patch_target = [hi |-> \h807F, lo |-> \hFFFF]
    /\ Len(patch_payload) = 251
    /\ Len(tags) = 1

\* the records of a tag buffer from position pos on: tag, size byte, body
RECURSIVE ParseTags(_, _)
ParseTags(buf, pos) ==
    IF pos + 3 > Len(buf) THEN <<>>
    ELSE <<[tag |-> SubSeq(buf, pos, pos + 2), size |-> buf[pos + 3],
            body |-> SubSeq(buf, pos + 4, Min(pos + 3 + buf[pos + 3], Len(buf)))]>>
         \o ParseTags(buf, pos + 4 + buf[pos + 3])

\* the PAT record that patches payload p to address a
PatRecord(a, p) ==
    [tag |-> <<80, 65, 84>>, size |-> 4 + Len(p),
     body |-> <<a.hi - \h7F80, Len(p), a.lo \div 256, a.lo % 256>> \o p]

\* loader code at 0x80003970 and 0x80003A6A, then the jump at 0x806D4B9C
ExpectedLoaderRecords ==
    << PatRecord([hi |-> \h8000, lo |-> \h3970], SubSeq(CUYLER_MULTI_LOADER, 1, 250)),
       PatRecord([hi |-> \h8000, lo |-> \h3A6A], SubSeq(CUYLER_MULTI_LOADER, 251, 304)),
       PatRecord([hi |-> \h806D, lo |-> \h4B9C], <<128, 0, 57, 112>>) >>

ExpectedUserRecords ==
    [i \in 1..Len(args.patch) |->
        PatRecord(int16(args.patch[i][1]).val, unhexlify(args.patch[i][2]).val)]

RECURSIVE SumSizes(_)
SumSizes(records) ==
    IF records = <<>> THEN 0 ELSE 4 + Head(records).size + SumSizes(Tail(records))

\* C9: the tag buffer is the zero-size ZZZ record, the two loader-code PAT
\* records and the jump PAT record when the loader is enabled, one PAT record
\* per user patch in command-line order, and the zero-size END record; with
\* neither loader nor patches it is the 8 bytes ZZZ\0END\0; its length is 8
\* plus the lengths of the PAT records.
C9_TagBufferLayout ==
    tag_info_len > 0 =>
        LET pats == (IF args.loader THEN ExpectedLoaderRecords ELSE <<>>)
                        \o ExpectedUserRecords
        IN  /\ ParseTags(tag_info, 1) =
                   <<[tag |-> <<90, 90, 90>>, size |-> 0, body |-> <<>>]>> \o pats
                       \o <<[tag |-> <<69, 78, 68>>, size |-> 0, body |-> <<>>]>>
            /\ Len(tag_info) = 8 + SumSizes(pats)
            /\ tag_info_len = Len(tag_info)
            /\ (~args.loader /\ args.patch = <<>>) =>
                   tag_info = <<90, 90, 90, 0, 69, 78, 68, 0>>

\* C9: a tag buffer with the loader records and two user patches was built
C9_Witness ==
    pc = "sizing" /\ args.loader /\ Len(args.patch) = 2 /\ Len(tags) = 5

\* --autoheader was given with an address
HasAutoHeader == args.autoheader # <<>> /\ args.autoheader[1] # <<>>

\* patch count 1, address A, size len(P), entry flag 1, then P
ExpectedBlob ==
    LET A == int16(args.autoheader[1]).val
        P == args.rom_file
    IN  <<0, 0, 0, 1>>
            \o <<A.hi \div 256, A.hi % 256, A.lo \div 256, A.lo % 256>>
            \o <<Len(P) \div 16777216, (Len(P) \div 65536) % 256,
                 (Len(P) \div 256) % 256, Len(P) % 256>>
            \o <<0, 0, 0, 1>> \o P

\* the big-endian 16-bit header field at 0x640 + 0x12
PayloadLenField == new_data_tmp[\h652 + 1] * 256 + new_data_tmp[\h653 + 1]

AutoHeaderApplied == HasAutoHeader /\ pc \notin {"start", "autoheader", "failed"}

====
